---- MODULE Spec2Model ----
(***************************************************************************)
(* Forward-pass model of DeepLearning/RNN/rnn.py: the scaled token         *)
(* Embedding, the vanilla RNN cell and the BiDirectional wrapper.          *)
(*                                                                         *)
(* Tensors are nested sequences of integers.  A tensor of shape            *)
(* (batch, 1, width), which the cell produces at every time step, is kept  *)
(* as batch rows of width numbers: the singleton axis that K.expand_dims   *)
(* inserts carries no data, and it is never axis 0, 1 or -1 of a tensor    *)
(* the code indexes.  Python values keep their type: a tensor, a list and  *)
(* a tuple are records with different fields.                              *)
(***************************************************************************)
EXTENDS Integers, Sequences, FiniteSets

VARIABLES
    rnn_args,        \* arguments the RNN cell was constructed with
    rnn_cell,        \* the RNN object: _kernel_dim, _activation, flags
    weights,         \* U, W, b, V, c of the cell; built = FALSE before build
    inputs,          \* argument of the most recent RNN.call / BiDirectional.call
    h_t,             \* local h_t of RNN.call when it returned
    ots,             \* local ots of RNN.call when it returned
    hts,             \* local hts of RNN.call when it returned
    outputs,         \* value returned by the most recent direct RNN.call
    called,          \* TRUE when outputs were computed with the current weights
    merge_mode_arg,  \* merge_mode passed to BiDirectional.__init__, NoValue before
    bi,              \* the BiDirectional object (state "none" while there is none)
    error,           \* the exception the most recent operation raised, or NoError
    rnn_fw_outputs,  \* local of BiDirectional.call
    rnn_bw_outputs,  \* local of BiDirectional.call
    bi_outputs,      \* value returned by the most recent BiDirectional.call
    emb,             \* the Embedding object: _vocab_size, _model_dim
    embeddings,      \* the embedding table, <<>> before build
    emb_inputs,      \* argument of the most recent Embedding.call
    emb_outputs      \* value returned by the most recent Embedding.call

vars == <<rnn_args, rnn_cell, weights, inputs, h_t, ots, hts, outputs, called,
          merge_mode_arg, bi, error, rnn_fw_outputs, rnn_bw_outputs, bi_outputs,
          emb, embeddings, emb_inputs, emb_outputs>>

rnnVars == <<rnn_args, rnn_cell, weights, inputs, h_t, ots, hts, outputs, called>>
biVars  == <<merge_mode_arg, bi, error, rnn_fw_outputs, rnn_bw_outputs, bi_outputs>>
embVars == <<emb, embeddings, emb_inputs, emb_outputs>>

(***************************************************************************)
(* Bounds of the model.                                                    *)
(***************************************************************************)
MaxT         == 2    \* time steps of an input batch
MaxBatch     == 2    \* sequences in an input batch
MaxInputDim  == 1    \* feature width of an RNN input
MaxKernelDim == 2    \* hidden width of the RNN cell
MaxSeed      == 2    \* draws of the weight initializer / of the optimizer
MaxVocab     == 2    \* rows of the embedding table
MaxRootDim   == 2    \* model_dim of the Embedding is a square up to MaxRootDim^2

(***************************************************************************)
(* Python values.                                                          *)
(***************************************************************************)
None == "<None>"
NoError == [type |-> "none"]

Tensor(v)   == [tensor |-> v]
List(items) == [list |-> items]
Tuple(a, b) == [tuple |-> <<a, b>>]
NoValue     == [novalue |-> TRUE]

(***************************************************************************)
(* Tensor arithmetic (tensorflow.keras.backend).                           *)
(***************************************************************************)
Zeros(n) == [j \in 1..n |-> 0]

Reverse(s) == [i \in 1..Len(s) |-> s[Len(s) + 1 - i]]

RECURSIVE SumTo(_, _)
SumTo(f, n) == IF n = 0 THEN 0 ELSE f[n] + SumTo(f, n - 1)

MaxOf(v) == CHOOSE m \in {v[j] : j \in 1..Len(v)} : \A j \in 1..Len(v) : v[j] <= m

\* K.dot of one row x (width n) with a matrix M of n rows: a row of Len(M[1]) numbers.
Dot(x, M) ==
    [j \in 1..Len(M[1]) |-> SumTo([i \in 1..Len(x) |-> x[i] * M[i][j]], Len(x))]

VecAdd(u, v) == [j \in 1..Len(u) |-> u[j] + v[j]]

\* Row b of a (batch, width) tensor under broadcasting: a tensor of one row
\* stands for that row repeated.
Row(h, b) == IF Len(h) = 1 THEN h[1] ELSE h[b]

\* K.softmax over the last axis.  The value exp(z_j) / sum_k exp(z_k) is
\* represented exactly by its logarithm relative to the largest component,
\* z_j - max(z): two logit rows have the same softmax iff they have the same
\* such row.
Softmax(z) == [j \in 1..Len(z) |-> z[j] - MaxOf(z)]

(***************************************************************************)
(* tensorflow.keras.activations: get(None) is the linear activation, and   *)
(* a name is resolved to the function of that name.                        *)
(***************************************************************************)
Activations == {"linear", "relu"}

ActivationsGetKeepNone(identifier) == identifier

ActivationsGet(identifier) ==
    IF identifier = None THEN "linear" ELSE identifier

Activation(fn, a) ==
    IF fn = "relu" THEN [j \in 1..Len(a) |-> IF a[j] > 0 THEN a[j] ELSE 0]
    ELSE a

(***************************************************************************)
(* RNN.__init__                                                            *)
(***************************************************************************)
RNNInit(kernel_dim, activation, return_outputs, return_states, use_bias) ==
    [kernel_dim     |-> kernel_dim,
     activation     |-> ActivationsGet(activation),
     return_outputs |-> return_outputs,
     return_states  |-> return_states,
     use_bias       |-> use_bias]

RNNArgs ==
    [kernel_dim     : 1..MaxKernelDim,
     activation     : Activations \cup {None},
     return_outputs : BOOLEAN,
     return_states  : BOOLEAN,
     use_bias       : BOOLEAN]

(***************************************************************************)
(* RNN.build: the initializers.  glorot_uniform draws each entry from a    *)
(* range symmetric around zero; a draw is one of MaxSeed + 1 matrices with *)
(* entries in {-1, 0, 1}.  Biases are created as zeros.  Absent tensors    *)
(* (b without use_bias, V without return_outputs) are <<>>.                *)
(***************************************************************************)
GlorotUniform(seed, rows, cols) ==
    [i \in 1..rows |-> [j \in 1..cols |->
        LET k == (i - 1) * cols + (j - 1)
        IN  ((seed + k * (seed + 1)) % 3) - 1]]

NotBuilt == [built |-> FALSE]

RNNBuild(cell, input_dim, seed) ==
    [built |-> TRUE,
     U |-> GlorotUniform(seed, input_dim, cell.kernel_dim),
     W |-> GlorotUniform(seed + 1, cell.kernel_dim, cell.kernel_dim),
     b |-> IF cell.use_bias THEN Zeros(cell.kernel_dim) ELSE <<>>,
     V |-> IF cell.return_outputs
           THEN GlorotUniform(seed + 2, cell.kernel_dim, cell.kernel_dim)
           ELSE <<>>,
     c |-> IF cell.return_outputs /\ cell.use_bias
           THEN Zeros(cell.kernel_dim) ELSE <<>>]

\* The external optimizer (model.fit): every tensor that exists gets new
\* values of the same shape, the biases included.
Trained(w, seed) ==
    LET bias(s, n) == [j \in 1..n |-> ((s + j) % 3) - 1]
    IN [built |-> TRUE,
        U |-> GlorotUniform(seed + 1, Len(w.U), Len(w.U[1])),
        W |-> GlorotUniform(seed, Len(w.W), Len(w.W[1])),
        b |-> IF w.b = <<>> THEN <<>> ELSE bias(seed, Len(w.b)),
        V |-> IF w.V = <<>> THEN <<>> ELSE GlorotUniform(seed + 2, Len(w.V), Len(w.V[1])),
        c |-> IF w.c = <<>> THEN <<>> ELSE bias(seed + 1, Len(w.c))]

(***************************************************************************)
(* RNN.call                                                                *)
(***************************************************************************)
\* h_t = K.zeros((1, kernel_dim)): one row, broadcast over the batch.  The
\* second parameter is the hidden state the previous forward pass ended
\* with, which the code does not look at.
InitialHiddenCarried(kernel_dim, left) ==
    IF left # <<>> /\ Len(left[1]) = kernel_dim THEN left ELSE <<Zeros(kernel_dim)>>

InitialHiddenOnes(kernel_dim, left) == <<[j \in 1..kernel_dim |-> 1]>>

InitialHidden(kernel_dim, left) == <<Zeros(kernel_dim)>>

\* a_t = K.dot(x_t, U) + K.dot(h_t, W); if use_bias: a_t += b
PreActivation(cell, w, x_t, h) ==
    [b \in 1..Len(x_t) |->
        LET a == VecAdd(Dot(x_t[b], w.U), Dot(Row(h, b), w.W))
        IN  IF cell.use_bias THEN VecAdd(a, w.b) ELSE a]

\* o_t = K.softmax(K.dot(h_t, V) (+ c))
Output(cell, w, h) ==
    [b \in 1..Len(h) |->
        LET o == Dot(h[b], w.V)
        IN  Softmax(IF cell.use_bias THEN VecAdd(o, w.c) ELSE o)]

\* The loop body for t in range(inputs.shape[1]); acc holds h_t, ots, hts.
RECURSIVE RNNLoop(_, _, _, _, _)
RNNLoop(cell, w, x, t, acc) ==
    IF t > Len(x[1]) THEN acc
    ELSE LET x_t  == [b \in 1..Len(x) |-> x[b][t]]
             a_t  == PreActivation(cell, w, x_t, acc.h_t)
             act  == cell.activation # None
             h    == IF act THEN [b \in 1..Len(a_t) |-> Activation(cell.activation, a_t[b])]
                            ELSE acc.h_t
             hs   == IF act THEN Append(acc.hts, Tensor(h)) ELSE acc.hts
             os   == IF cell.return_outputs
                     THEN Append(acc.ots, Tensor(Output(cell, w, h)))
                     ELSE acc.ots
         IN  RNNLoop(cell, w, x, t + 1, [h_t |-> h, ots |-> os, hts |-> hs])

\* The locals of RNN.call when the loop has ended.
RNNRun(cell, w, x, left) ==
    RNNLoop(cell, w, x, 1,
            [h_t |-> InitialHidden(cell.kernel_dim, left), ots |-> <<>>, hts |-> <<>>])

\* Lines 112-119: the result selection.
SelectOutputsStatesLast(cell, r) ==
    LET o1 == Tensor(r.h_t)
        o2 == IF cell.return_outputs THEN List(r.ots) ELSE o1
        o3 == IF cell.return_states THEN List(r.hts) ELSE o2
    IN  o3

SelectOutputs(cell, r) ==
    LET o1 == Tensor(r.h_t)
        o2 == IF cell.return_outputs THEN List(r.ots) ELSE o1
        o3 == IF cell.return_states THEN List(r.hts) ELSE o2
        o4 == IF cell.return_outputs /\ cell.return_states
              THEN Tuple(List(r.ots), List(r.hts)) ELSE o3
    IN  o4



\* RNN.call: the returned value and the locals it ended with.  left is the
\* h_t an earlier forward pass ended with.
RNNCallResult(cell, w, x, left) ==
    LET r == RNNRun(cell, w, x, left)
    IN  [outputs |-> SelectOutputs(cell, r), h_t |-> r.h_t, ots |-> r.ots, hts |-> r.hts]

(***************************************************************************)
(* Input batches: shape (batch, time, input_dim).  Every time step is one  *)
(* of two feature vectors, the zero vector and an alternating one; the     *)
(* sequences of a batch are the first one and its complement in turn.      *)
(***************************************************************************)
Features(d) ==
    {Zeros(d), [i \in 1..d |-> IF i % 2 = 1 THEN 1 ELSE -1]}

OtherFeature(f) == CHOOSE g \in Features(Len(f)) : g # f

Batch(seq, n) ==
    [b \in 1..n |->
        IF b % 2 = 1 THEN seq ELSE [t \in 1..Len(seq) |-> OtherFeature(seq[t])]]

Batches ==
    UNION {{Batch(seq, n) : seq \in [1..T -> Features(d)], n \in 1..MaxBatch} :
              T \in 1..MaxT, d \in 1..MaxInputDim}

InputDimOf(x) == Len(x[1][1])

(***************************************************************************)
(* The RNN cell as a layer.  Layer.__call__ builds the weights on the      *)
(* first call (seed is the initializer's draw) and then runs call.         *)
(***************************************************************************)
WeightsFor(x, seed) ==
    IF weights.built THEN weights ELSE RNNBuild(rnn_cell, InputDimOf(x), seed)

RNNCall(seed) ==
    /\ weights.built => seed = 0
    /\ \E w \in {WeightsFor(inputs, seed)} :
       \E r \in {RNNCallResult(rnn_cell, w, inputs, h_t)} :
           /\ weights' = w
           /\ h_t' = r.h_t
           /\ ots' = r.ots
           /\ hts' = r.hts
           /\ outputs' = r.outputs
           /\ called' = TRUE
    /\ UNCHANGED <<rnn_args, rnn_cell, inputs>>
    /\ UNCHANGED biVars
    /\ UNCHANGED embVars

\* One step of the external optimizer between forward passes (model.fit).
\* The results of earlier passes belong to the old weights and are dropped.
Fit(seed) ==
    /\ weights.built
    /\ weights' = Trained(weights, seed)
    /\ weights' # weights
    /\ called' = FALSE
    /\ h_t' = <<>>
    /\ ots' = <<>>
    /\ hts' = <<>>
    /\ outputs' = NoValue
    /\ UNCHANGED <<rnn_args, rnn_cell, inputs>>
    /\ UNCHANGED biVars
    /\ UNCHANGED embVars

(***************************************************************************)
(* BiDirectional.__init__                                                  *)
(***************************************************************************)
ValueError(msg, where) == [type |-> "ValueError", msg |-> msg, raised_by |-> where]

MergeModes == {"sum", "mul", "ave", "concat", None}

\* merge_mode arguments tried: the five allowed ones and two others.
MergeModeArgs == MergeModes \cup {"xor", "Concat"}

ValidMergeModeAny(merge_mode) == TRUE

ValidMergeMode(merge_mode) == merge_mode \in MergeModes

\* The text of the ValueError of lines 131-133, as its words (punctuation
\* and quotes dropped).  It is a literal: merge_mode is not formatted into it.
InvalidMergeModeMessageNaming(merge_mode) ==
    <<"Invalid", "merge", "mode", "Merge", "mode", "should", "be", "one", "of",
      "sum", "mul", "ave", "concat", "None", merge_mode>>

InvalidMergeModeMessage(merge_mode) ==
    <<"Invalid", "merge", "mode", "Merge", "mode", "should", "be", "one", "of",
      "sum", "mul", "ave", "concat", "None">>

NoWrapper == [state |-> "none"]

\* The constructor: what it raises and the object it yields.
BiDirectionalInit(cell, merge_mode) ==
    IF ~ValidMergeMode(merge_mode)
    THEN [error  |-> ValueError(InvalidMergeModeMessage(merge_mode), "__init__"),
          object |-> NoWrapper]
    ELSE [error  |-> NoError,
          object |-> [state          |-> "ok",
                      merge_mode     |-> merge_mode,
                      return_outputs |-> cell.return_outputs,
                      return_states  |-> cell.return_states]]

(***************************************************************************)
(* BiDirectional.call                                                      *)
(***************************************************************************)
\* A Python list of T tensors of shape (batch, width) given to a backend
\* function is packed into one tensor of shape (T, batch, width).
ConvertToTensor(v) ==
    IF "list" \in DOMAIN v
    THEN [t \in 1..Len(v.list) |-> v.list[t].tensor]
    ELSE v.tensor

\* K.reverse(x, axes) for axes 0 and 1.
KReverse(x, axes) ==
    IF axes = 0 THEN Reverse(x) ELSE [i \in 1..Len(x) |-> Reverse(x[i])]

\* Lines 144-152: the state sequence of one pass, or the refusal.
ExtractStatesLenient(wrapper, rnn_outputs) ==
    IF wrapper.return_states
    THEN [ok |-> TRUE,
          states |-> IF wrapper.return_outputs THEN rnn_outputs.tuple[2] ELSE rnn_outputs]
    ELSE [ok |-> TRUE,
          states |-> IF wrapper.return_outputs THEN rnn_outputs ELSE List(<<rnn_outputs>>)]

ExtractStates(wrapper, rnn_outputs) ==
    IF wrapper.return_states
    THEN [ok |-> TRUE,
          states |-> IF wrapper.return_outputs THEN rnn_outputs.tuple[2] ELSE rnn_outputs]
    ELSE [ok |-> FALSE]

\* (a + b) / 2 as a reduced fraction.
Half(n) ==
    IF n % 2 = 0 THEN [num |-> n \div 2, den |-> 1] ELSE [num |-> n, den |-> 2]

\* One merged feature vector.
MergeVecSumForConcat(merge_mode, f, g) ==
    IF merge_mode = "concat" THEN [j \in 1..Len(f) |-> f[j] + g[j]]
    ELSE IF merge_mode = "sum" THEN [j \in 1..Len(f) |-> f[j] + g[j]]
    ELSE IF merge_mode = "ave" THEN [j \in 1..Len(f) |-> Half(f[j] + g[j])]
    ELSE [j \in 1..Len(f) |-> f[j] * g[j]]

MergeVec(merge_mode, f, g) ==
    IF merge_mode = "concat" THEN f \o g
    ELSE IF merge_mode = "sum" THEN [j \in 1..Len(f) |-> f[j] + g[j]]
    ELSE IF merge_mode = "ave" THEN [j \in 1..Len(f) |-> Half(f[j] + g[j])]
    ELSE [j \in 1..Len(f) |-> f[j] * g[j]]

\* Lines 156-168 on two tensors of shape (T, batch, width).
Merge(merge_mode, fw_states, bw_states) ==
    IF merge_mode \in {"concat", "sum", "ave", "mul"}
    THEN Tensor([t \in 1..Len(fw_states) |->
                    [b \in 1..Len(fw_states[t]) |->
                        MergeVec(merge_mode, fw_states[t][b], bw_states[t][b])]])
    ELSE IF merge_mode = None
    THEN List(<<Tensor(fw_states), Tensor(bw_states)>>)
    ELSE ValueError(<<"Unrecognized", "value", "for", "argument", "merge_mode", merge_mode>>,
                    "call")

\* Lines 144-169, given what the two passes returned.
BiDirectionalCall(wrapper, fw_outputs, bw_outputs) ==
    LET f == ExtractStates(wrapper, fw_outputs)
        g == ExtractStates(wrapper, bw_outputs)
    IN  IF ~f.ok
        THEN [error |-> ValueError(<<"BiDirectional", "rnn", "cell", "must", "set",
                                     "_return_states", "to", "True">>, "call"),
              outputs |-> NoValue]
        ELSE LET fw_states == KReverse(ConvertToTensor(f.states), 1)
                 bw_states == KReverse(ConvertToTensor(g.states), 1)
                 merged    == Merge(wrapper.merge_mode, fw_states, bw_states)
             IN  IF "type" \in DOMAIN merged
                 THEN [error |-> merged, outputs |-> NoValue]
                 ELSE [error |-> NoError, outputs |-> merged]

\* BiDirectional(rnn_cell, merge_mode)
BiInit(merge_mode) ==
    /\ merge_mode_arg = NoValue
    /\ merge_mode_arg' = [value |-> merge_mode]
    /\ \E r \in {BiDirectionalInit(rnn_cell, merge_mode)} :
           /\ bi' = r.object
           /\ error' = r.error
    /\ UNCHANGED <<rnn_fw_outputs, rnn_bw_outputs, bi_outputs>>
    /\ UNCHANGED rnnVars
    /\ UNCHANGED embVars

\* The wrapper called on inputs: the inner cell runs on inputs and then on
\* the time-reversed inputs (building its weights on the first run).
BiCall(seed) ==
    /\ bi.state = "ok"
    /\ weights.built => seed = 0
    /\ \E w \in {WeightsFor(inputs, seed)} :
       \E reverse_inputs \in {KReverse(inputs, 1)} :
       \E fw \in {RNNCallResult(rnn_cell, w, inputs, h_t)} :
       \E bw \in {RNNCallResult(rnn_cell, w, reverse_inputs, fw.h_t)} :
       \E r \in {BiDirectionalCall(bi, fw.outputs, bw.outputs)} :
           /\ weights' = w
           /\ h_t' = bw.h_t
           /\ ots' = bw.ots
           /\ hts' = bw.hts
           /\ rnn_fw_outputs' = fw.outputs
           /\ rnn_bw_outputs' = bw.outputs
           /\ bi_outputs' = r.outputs
           /\ error' = r.error
    /\ UNCHANGED <<rnn_args, rnn_cell, inputs, outputs, called, merge_mode_arg, bi>>
    /\ UNCHANGED embVars

(***************************************************************************)
(* Embedding                                                               *)
(***************************************************************************)
\* model_dim ** 0.5, for a model_dim that is a square.
Sqrt(n) == CHOOSE r \in 0..n : r * r = n

EmbeddingScaleNoRoot(model_dim) == model_dim

EmbeddingScale(model_dim) == Sqrt(model_dim)

\* Embedding.build: the table, vocab_size rows of model_dim numbers.
EmbeddingBuild(e, seed) == GlorotUniform(seed, e.vocab_size, e.model_dim)

\* K.cast(inputs, 'int32').  A float32 tensor holds its values in halves
\* (value 3 stands for 1.5); the cast drops the fraction.
KCast(x, dtype) ==
    [dtype |-> dtype,
     value |-> [b \in 1..Len(x.value) |->
                   [t \in 1..Len(x.value[b]) |-> x.value[b][t] \div 2]]]

\* K.gather(reference, indices): row indices[b][t] of reference (rows from 0).
KGather(reference, indices) ==
    [b \in 1..Len(indices) |-> [t \in 1..Len(indices[b]) |-> reference[indices[b][t] + 1]]]

\* Embedding.call
EmbeddingCall(e, table, x) ==
    LET ids      == IF x.dtype # "int32" THEN KCast(x, "int32") ELSE x
        gathered == KGather(table, ids.value)
    IN  [b \in 1..Len(gathered) |-> [t \in 1..Len(gathered[b]) |->
            [j \in 1..Len(gathered[b][t]) |-> gathered[b][t][j] * EmbeddingScale(e.model_dim)]]]

\* Embedding.compute_output_shape
ComputeOutputShape(e, input_shape) == input_shape \o <<e.model_dim>>

\* Batches of token ids for a vocabulary of v tokens, shape (batch, time):
\* int32 ids, or float32 values given in halves.  The sequences of a batch
\* are the first one shifted by one token per row.
IdBatches(v) ==
    UNION {
      {[dtype |-> "int32",
        value |-> [b \in 1..n |-> [t \in 1..T |-> (seq[t] + (b - 1)) % v]]]
          : seq \in [1..T -> 0..(v - 1)], n \in 1..MaxBatch}
      \cup
      {[dtype |-> "float32",
        value |-> [b \in 1..n |-> [t \in 1..T |-> (seq[t] + 2 * (b - 1)) % (2 * v)]]]
          : seq \in [1..T -> 0..(2 * v - 1)], n \in 1..MaxBatch}
      : T \in 1..MaxT}

\* The layer called on emb_inputs; the first call builds the table.
EmbCall(seed) ==
    /\ embeddings # <<>> => seed = 0
    /\ \E table \in {IF embeddings # <<>> THEN embeddings ELSE EmbeddingBuild(emb, seed)} :
           /\ embeddings' = table
           /\ emb_outputs' = Tensor(EmbeddingCall(emb, table, emb_inputs))
    /\ UNCHANGED <<emb, emb_inputs>>
    /\ UNCHANGED rnnVars
    /\ UNCHANGED biVars

\* One step of the external optimizer on the table; the result of an
\* earlier call belongs to the old table and is dropped.
EmbFit(seed) ==
    /\ embeddings # <<>>
    /\ embeddings' = EmbeddingBuild(emb, seed)
    /\ embeddings' # embeddings
    /\ emb_outputs' = NoValue
    /\ UNCHANGED <<emb, emb_inputs>>
    /\ UNCHANGED rnnVars
    /\ UNCHANGED biVars

(***************************************************************************)
(* Initial states: a constructed layer and the batch it will be given.     *)
(***************************************************************************)
InitRNN ==
    /\ rnn_args \in RNNArgs
    /\ rnn_cell = RNNInit(rnn_args.kernel_dim, rnn_args.activation,
                          rnn_args.return_outputs, rnn_args.return_states,
                          rnn_args.use_bias)
    /\ weights = NotBuilt
    /\ inputs \in Batches
    /\ h_t = <<>>
    /\ ots = <<>>
    /\ hts = <<>>
    /\ outputs = NoValue
    /\ called = FALSE

NoRNN ==
    /\ rnn_args = NoValue
    /\ rnn_cell = NoValue
    /\ weights = NotBuilt
    /\ inputs = <<>>
    /\ h_t = <<>>
    /\ ots = <<>>
    /\ hts = <<>>
    /\ outputs = NoValue
    /\ called = FALSE

InitBi ==
    /\ merge_mode_arg = NoValue
    /\ bi = NoWrapper
    /\ error = NoError
    /\ rnn_fw_outputs = NoValue
    /\ rnn_bw_outputs = NoValue
    /\ bi_outputs = NoValue

InitEmb ==
    /\ emb \in [vocab_size : 1..MaxVocab, model_dim : {r * r : r \in 1..MaxRootDim}]
    /\ embeddings = <<>>
    /\ emb_inputs \in IdBatches(emb.vocab_size)
    /\ emb_outputs = NoValue

NoEmb ==
    /\ emb = NoValue
    /\ embeddings = <<>>
    /\ emb_inputs = NoValue
    /\ emb_outputs = NoValue

Init == InitRNN /\ InitBi /\ NoEmb

\* The cell used directly, with the optimizer between forward passes.
NextRNN ==
    \/ \E seed \in 0..MaxSeed : RNNCall(seed)
    \/ \E seed \in 0..MaxSeed : Fit(seed)

SpecRNN == Init /\ [][NextRNN]_vars

\* The cell inside a BiDirectional wrapper.
NextBi ==
    \/ \E merge_mode \in MergeModeArgs : BiInit(merge_mode)
    \/ \E seed \in 0..MaxSeed : BiCall(seed)

SpecBi == Init /\ [][NextBi]_vars

\* The Embedding layer.
NextEmb ==
    \/ \E seed \in 0..MaxSeed : EmbCall(seed)
    \/ \E seed \in 0..MaxSeed : EmbFit(seed)

InitEmbedding == NoRNN /\ InitBi /\ InitEmb

SpecEmb == InitEmbedding /\ [][NextEmb]_vars

(***************************************************************************)
(* Properties of RNN.call, checked under SpecRNN.                          *)
(***************************************************************************)
SeqLen == Len(inputs[1])

\* The hidden state of the cell after it consumed the sequence seq alone,
\* starting from nothing.
StateAfter(seq) == RNNRun(rnn_cell, weights, <<seq>>, <<>>).h_t[1]

\* The state sequence a direct call returned.
ReturnedStates ==
    IF rnn_cell.return_outputs THEN outputs.tuple[2] ELSE outputs

\* C2: RNN.call selects its result by the flags in the priority both ->
\* (outputs, states); states only -> states; outputs only -> outputs;
\* neither -> the final hidden state.  Every returned sequence has one
\* element per time step, in time order (element t is the state after
\* x_0..x_t and the output computed from it), and the final state has width
\* kernel_dim.
C2_ResultSelection ==
    called =>
        /\ (rnn_args.return_outputs /\ rnn_args.return_states)
               => outputs = Tuple(List(ots), List(hts))
        /\ (~rnn_args.return_outputs /\ rnn_args.return_states)
               => outputs = List(hts)
        /\ (rnn_args.return_outputs /\ ~rnn_args.return_states)
               => outputs = List(ots)
        /\ (~rnn_args.return_outputs /\ ~rnn_args.return_states)
               => outputs = Tensor(h_t)
        /\ Len(hts) = SeqLen
        /\ rnn_args.return_outputs => Len(ots) = SeqLen
        /\ \A t \in 1..SeqLen : \A b \in 1..Len(inputs) :
               hts[t].tensor[b] = StateAfter(SubSeq(inputs[b], 1, t))
        /\ rnn_args.return_outputs =>
               \A t \in 1..SeqLen :
                   ots[t] = Tensor(Output(rnn_cell, weights, hts[t].tensor))
        /\ Len(h_t) = Len(inputs)
        /\ \A b \in 1..Len(h_t) : Len(h_t[b]) = rnn_args.kernel_dim
        /\ Tensor(h_t) = hts[SeqLen]

C2_Witness ==
    /\ called
    /\ rnn_args.return_outputs
    /\ rnn_args.return_states
    /\ SeqLen = MaxT
    /\ outputs.tuple[1] # outputs.tuple[2]

\* C7: with identity activation and use_bias = False, a sequence of
\* all-zero inputs gives the hidden state 0 at every time step, for any
\* weights U and W.
C7_ZeroFixedPoint ==
    (called /\ rnn_args.activation \in {"linear", None} /\ ~rnn_args.use_bias) =>
        \A b \in 1..Len(inputs) :
            (\A t \in 1..SeqLen : \A d \in 1..Len(inputs[b][t]) : inputs[b][t][d] = 0)
            => /\ \A t \in 1..SeqLen : \A j \in 1..rnn_args.kernel_dim :
                     hts[t].tensor[b][j] = 0
               /\ \A j \in 1..rnn_args.kernel_dim : h_t[b][j] = 0

C7_Witness ==
    /\ called
    /\ rnn_args.activation = "linear"
    /\ ~rnn_args.use_bias
    /\ SeqLen = MaxT
    /\ \A t \in 1..SeqLen : inputs[1][t] = Zeros(InputDimOf(inputs))
    /\ \E i \in 1..Len(weights.W) : \E j \in 1..Len(weights.W) : weights.W[i][j] # 0
    /\ hts[SeqLen].tensor[1] = Zeros(rnn_args.kernel_dim)

\* C9 as stated: with activation = None and return_states = True the
\* returned state sequence is empty, whatever the length of the input.
C9_NoStatesWithoutActivation ==
    (called /\ rnn_args.activation = None /\ rnn_args.return_states) =>
        ReturnedStates = List(<<>>)

\* C9 amended: a cell configured with activation = None runs with the
\* identity activation (activations.get(None) is the linear function, never
\* None): h_t = a_t is appended at every step, and with return_states = True
\* the returned state sequence has one state per time step.
C9_NoneIsIdentity ==
    (called /\ rnn_args.activation = None) =>
        /\ rnn_cell.activation = "linear"
        /\ Len(hts) = SeqLen
        /\ rnn_args.return_states => Len(ReturnedStates.list) = SeqLen
        /\ \A b \in 1..Len(inputs) :
               hts[1].tensor[b] =
                   IF rnn_args.use_bias
                   THEN VecAdd(Dot(inputs[b][1], weights.U), weights.b)
                   ELSE Dot(inputs[b][1], weights.U)

C9_Witness ==
    /\ called
    /\ rnn_args.activation = None
    /\ rnn_args.return_states
    /\ SeqLen = MaxT
    /\ Len(ReturnedStates.list) = MaxT
    /\ \E j \in 1..rnn_args.kernel_dim : hts[1].tensor[1][j] < 0

(***************************************************************************)
(* Properties of BiDirectional, checked under SpecBi.                      *)
(***************************************************************************)
\* The wrapper has been called (its two passes have run).
BiPassesDone == rnn_fw_outputs # NoValue

\* The wrapper has been called and returned a result.
BiReturned == BiPassesDone /\ error = NoError /\ bi_outputs # NoValue

\* Forward and backward component of the merged result at time position t
\* of sequence b, as the specification defines them: the forward state after
\* x_0..x_t and the backward state after x_{T-1}..x_t.
ForwardAt(b, t)  == StateAfter(SubSeq(inputs[b], 1, t))
BackwardAt(b, t) == StateAfter(Reverse(SubSeq(inputs[b], t, SeqLen)))

\* C1: the merged result at time position t of every sequence combines the
\* forward state after x_0..x_t with the backward state after x_{T-1}..x_t
\* (only the backward state sequence is reversed), in every merge mode.
C1_MergeInForwardTimeOrder ==
    BiReturned =>
        \A t \in 1..SeqLen : \A b \in 1..Len(inputs) :
            IF bi.merge_mode = None
            THEN /\ bi_outputs.list[1].tensor[t][b] = ForwardAt(b, t)
                 /\ bi_outputs.list[2].tensor[t][b] = BackwardAt(b, t)
            ELSE bi_outputs.tensor[t][b] =
                     MergeVec(bi.merge_mode, ForwardAt(b, t), BackwardAt(b, t))

\* C3: a wrapper whose inner cell has return_states = False ends every call
\* in a ValueError and returns no merged result, in every merge mode and for
\* every return_outputs and input.
C3_CallRequiresStates ==
    (BiPassesDone /\ ~rnn_args.return_states) =>
        /\ error.type = "ValueError"
        /\ error.raised_by = "call"
        /\ bi_outputs = NoValue

C3_Witness ==
    /\ BiPassesDone
    /\ ~rnn_args.return_states
    /\ rnn_args.return_outputs
    /\ bi.merge_mode = "sum"
    /\ error.type = "ValueError"

\* C4: construction with a merge mode outside {sum, mul, ave, concat, None}
\* raises ValueError, yields no wrapper, and no forward pass of the inner
\* cell has run; construction with one of the five values yields a wrapper
\* with that merge mode.
C4_ConstructionValidatesMergeMode ==
    merge_mode_arg # NoValue =>
        IF merge_mode_arg.value \in {"sum", "mul", "ave", "concat", None}
        THEN /\ bi.state = "ok"
             /\ bi.merge_mode = merge_mode_arg.value
        ELSE /\ bi = NoWrapper
             /\ error.type = "ValueError"
             /\ error.raised_by = "__init__"
             /\ weights = NotBuilt
             /\ h_t = <<>>
             /\ ~BiPassesDone
             /\ bi_outputs = NoValue

C4_Witness ==
    /\ merge_mode_arg = [value |-> "xor"]
    /\ bi = NoWrapper
    /\ error.type = "ValueError"

\* C5: with return_states = True, hidden width H and T time steps, the
\* result has T time steps and per-step vectors of width 2H for concat, of
\* width H for sum, ave and mul, and is a pair of two width-H state
\* sequences of T steps for None.
HasShape(x, T, n, width) ==
    /\ Len(x) = T
    /\ \A t \in 1..T :
           /\ Len(x[t]) = n
           /\ \A b \in 1..n : Len(x[t][b]) = width

C5_MergedWidth ==
    (BiPassesDone /\ rnn_args.return_states) =>
        /\ BiReturned
        /\ bi.merge_mode = "concat" =>
               HasShape(bi_outputs.tensor, SeqLen, Len(inputs), 2 * rnn_args.kernel_dim)
        /\ bi.merge_mode \in {"sum", "ave", "mul"} =>
               HasShape(bi_outputs.tensor, SeqLen, Len(inputs), rnn_args.kernel_dim)
        /\ bi.merge_mode = None =>
               /\ Len(bi_outputs.list) = 2
               /\ \A k \in 1..2 :
                      HasShape(bi_outputs.list[k].tensor, SeqLen, Len(inputs),
                               rnn_args.kernel_dim)

C5_Witness ==
    /\ BiReturned
    /\ bi.merge_mode = "concat"
    /\ rnn_args.kernel_dim = MaxKernelDim
    /\ SeqLen = MaxT
    /\ Len(bi_outputs.tensor[1][1]) = 2 * MaxKernelDim

\* C6: no hidden state persists across calls.  With the weights fixed, a
\* pass of the cell depends on its input only: the backward pass, which
\* follows the forward pass, returns what the forward pass returned when the
\* reversed input equals the input, and a repeated call of the wrapper (its
\* forward pass follows the earlier backward pass) returns what the call
\* before returned.
C6_NoStateAcrossCalls ==
    /\ [](BiPassesDone /\ KReverse(inputs, 1) = inputs
              => rnn_bw_outputs = rnn_fw_outputs)
    /\ [][(BiPassesDone /\ weights' = weights /\ inputs' = inputs)
              => /\ rnn_fw_outputs' = rnn_fw_outputs
                 /\ rnn_bw_outputs' = rnn_bw_outputs
                 /\ bi_outputs' = bi_outputs]_vars

C6_Witness ==
    /\ BiPassesDone
    /\ SeqLen = MaxT
    /\ KReverse(inputs, 1) = inputs
    /\ rnn_bw_outputs = rnn_fw_outputs
    /\ h_t # <<Zeros(rnn_args.kernel_dim)>>
    /\ \E b \in 1..Len(h_t) : h_t[b] # Zeros(rnn_args.kernel_dim)

\* C10 as stated: the ValueError of a construction with an invalid merge
\* mode names the offending value in its message.
C10_ErrorNamesValue ==
    (error.type = "ValueError" /\ error.raised_by = "__init__") =>
        \E i \in 1..Len(error.msg) : error.msg[i] = merge_mode_arg.value

\* C10 amended: the ValueError of a construction with an invalid merge mode
\* carries one fixed message, which lists the allowed values and does not
\* name the offending one; it is the same for every invalid merge mode.
C10_FixedMessage ==
    (error.type = "ValueError" /\ error.raised_by = "__init__") =>
        /\ error.msg = <<"Invalid", "merge", "mode", "Merge", "mode", "should", "be",
                         "one", "of", "sum", "mul", "ave", "concat", "None">>
        /\ \A i \in 1..Len(error.msg) : error.msg[i] # merge_mode_arg.value

C10_Witness ==
    /\ error.type = "ValueError"
    /\ error.raised_by = "__init__"
    /\ merge_mode_arg.value = "Concat"

(***************************************************************************)
(* Properties of Embedding.call, checked under SpecEmb.                    *)
(***************************************************************************)
Shape2(x) == <<Len(x), Len(x[1])>>
Shape3(x) == <<Len(x), Len(x[1]), Len(x[1][1])>>

\* The token id at a position, when the input holds a whole number there.
IsTokenId(b, t) ==
    emb_inputs.dtype = "int32" \/ emb_inputs.value[b][t] % 2 = 0

TokenId(b, t) ==
    IF emb_inputs.dtype = "int32" THEN emb_inputs.value[b][t]
    ELSE CHOOSE k \in 0..(emb.vocab_size - 1) : 2 * k = emb_inputs.value[b][t]

\* C8: Embedding.call returns a result of shape input shape + (model_dim,)
\* whose vector at (b, t) is row ids[b][t] of the table times
\* model_dim ** 0.5, and the table after the call is the table the rows were
\* read from.
C8_ScaledLookup ==
    emb_outputs # NoValue =>
        /\ Shape3(emb_outputs.tensor) = Shape2(emb_inputs.value) \o <<emb.model_dim>>
        /\ Shape3(emb_outputs.tensor) = ComputeOutputShape(emb, Shape2(emb_inputs.value))
        /\ \A b \in 1..Len(emb_inputs.value) : \A t \in 1..Len(emb_inputs.value[b]) :
               /\ Len(emb_outputs.tensor[b][t]) = emb.model_dim
               /\ IsTokenId(b, t) =>
                      \E r \in 1..emb.model_dim :
                          /\ r * r = emb.model_dim
                          /\ \A j \in 1..emb.model_dim :
                                 emb_outputs.tensor[b][t][j]
                                     = r * embeddings[TokenId(b, t) + 1][j]

C8_Witness ==
    /\ emb_outputs # NoValue
    /\ emb.model_dim = 4
    /\ emb.vocab_size = MaxVocab
    /\ emb_inputs.dtype = "int32"
    /\ Shape2(emb_inputs.value) = <<MaxBatch, MaxT>>
    /\ emb_inputs.value[1][1] # emb_inputs.value[1][2]
    /\ \E j \in 1..4 : emb_outputs.tensor[1][1][j] = 2
    /\ \E j \in 1..4 : emb_outputs.tensor[1][1][j] = -2

====
